---- MODULE Spec2Model ----
(***************************************************************************)
(* Model of convert_bear_to_joplin.py: the hashtag scanner                 *)
(* (BearToJoplinConverter.extract_hashtags / is_tag), the front matter     *)
(* builder (extract_front_matter_info), the forward conversion of one      *)
(* markdown file (convert) and the directory walk of main.                 *)
(*                                                                         *)
(* Text is a sequence of one-character strings.  Indices into a line are   *)
(* Python's (0-based); Char and Slice translate them.                      *)
(***************************************************************************)
EXTENDS Integers, Sequences, FiniteSets, TLC

VARIABLES
    line,      \* extract_hashtags: the argument
    i,         \* extract_hashtags: the loop index of enumerate(line)
    scan,      \* extract_hashtags: the locals start, end, in_hash, multi_words, prev, tags
    spc,       \* extract_hashtags: position ("idle", "loop", "done")
    doc,          \* convert: the lines of in_path as text-mode iteration yields them
    same_file,    \* convert: out_path names the file in_path names
    platform,     \* platform.system()
    src_text,     \* convert: the lines in_path holds on disk
    li,           \* lines read so far from the open file (f, then in_file)
    title,        \* extract_front_matter_info: local title
    prev_line,    \* extract_front_matter_info: local prev_line
    front_matter, \* extract_front_matter_info: the dict, as its (key, value) pairs in insertion order
    out,          \* convert: the lines written to out_path
    out_stat,     \* convert: mode and times of out_path ("fresh", or those of in_path)
    cpc,          \* convert: position ("idle", "read", "dump", "copy", "done")
    files,        \* main: the files os.walk(src) yields, in its order
    overwrite,    \* main: --overwrite
    reverse,      \* main: --reverse
    dst_is_file,  \* main: os.path.isfile(dst)
    fidx,         \* main: files the loop has passed
    outcome,      \* main: what convert did for each file
    output,       \* main: what each out_path holds
    mpc           \* main: position

scanVars == <<line, i, scan, spc>>

convVars == <<doc, same_file, platform, src_text, li, title, prev_line, front_matter,
              out, out_stat, cpc>>

mainVars == <<files, overwrite, reverse, dst_is_file, fidx, outcome, output, mpc>>

vars == <<line, i, scan, spc, doc, same_file, platform, src_text, li, title, prev_line,
          front_matter, out, out_stat, cpc, files, overwrite, reverse, dst_is_file, fidx,
          outcome, output, mpc>>

-----------------------------------------------------------------------------
(* Bounds of the model *)

\* longest line drawn over ScanAlphabet
MaxLineLen == 8
\* most tags on a line drawn from ColourWords
MaxTags == 3
\* most lines of a document
MaxDocLines == 3
\* most files of the directory tree
MaxFiles == 2

-----------------------------------------------------------------------------
(* Python values *)

\* the value None where a character is expected (prev, peek)
None == "None"
\* the value None where a line is expected (prev_line of a document without text)
NoneLine == <<"None">>

Range(s) == {s[k] : k \in 1..Len(s)}

Min(a, b) == IF a < b THEN a ELSE b

\* line[k]
Char(l, k) == l[k + 1]

\* line[a:b] for 0 <= a
Slice(l, a, b) == IF a >= Min(b, Len(l)) THEN <<>> ELSE SubSeq(l, a + 1, Min(b, Len(l)))

-----------------------------------------------------------------------------
(* is_tag and the colour pattern ^[0-9a-fA-F]{6}$ *)

HexDigits == {"0", "1", "2", "3", "4", "5", "6", "7", "8", "9",
              "a", "b", "c", "d", "e", "f", "A", "B", "C", "D", "E", "F"}

\* the repetition count of the pattern
ColourLen == 6

\* color_re.match(hash): the whole text is ColourLen hexadecimal digits.  No line
\* read from a file holds a newline after rstrip, so $ matches at the end only.
color_re_prefix(hash) ==
    /\ Len(hash) >= ColourLen
    /\ \A k \in 1..ColourLen : hash[k] \in HexDigits

color_re(hash) ==
    /\ Len(hash) = ColourLen
    /\ \A k \in 1..ColourLen : hash[k] \in HexDigits

is_tag(hash) == ~color_re(hash)

-----------------------------------------------------------------------------
(* extract_hashtags: one iteration of the loop, branch by branch *)

\* the locals before the loop
ScanStart ==
    [start |-> 0, end |-> 0, in_hash |-> FALSE, multi_words |-> FALSE,
     prev |-> None, tags |-> <<>>]

Peek(l, k) == IF k + 1 < Len(l) THEN Char(l, k + 1) ELSE None

\* if curr == '#' and (prev is None or prev == ' ') and not in_hash
IsStartHash(s, l, k) ==
    /\ Char(l, k) = "#"
    /\ (s.prev = None \/ s.prev = " ")
    /\ ~s.in_hash

\* elif curr == '#' and prev != ' '
IsNarrowEnd(s, l, k) ==
    /\ ~IsStartHash(s, l, k)
    /\ Char(l, k) = "#"
    /\ s.prev # " "

\* elif curr == ' ' and in_hash and peek != '#'
IsMarkSpace(s, l, k) ==
    /\ ~IsStartHash(s, l, k)
    /\ ~IsNarrowEnd(s, l, k)
    /\ Char(l, k) = " "
    /\ s.in_hash
    /\ Peek(l, k) # "#"

\* elif curr == ' ' and in_hash and peek == '#'
IsCloseHash(s, l, k) ==
    /\ ~IsStartHash(s, l, k)
    /\ ~IsNarrowEnd(s, l, k)
    /\ Char(l, k) = " "
    /\ s.in_hash
    /\ Peek(l, k) = "#"

\* elif not multi_words
IsAdvance(s, l, k) ==
    /\ ~IsStartHash(s, l, k)
    /\ ~IsNarrowEnd(s, l, k)
    /\ ~IsMarkSpace(s, l, k)
    /\ ~IsCloseHash(s, l, k)
    /\ ~s.multi_words

\* no branch is taken: only prev = curr
IsNoBranch(s, l, k) ==
    /\ ~IsStartHash(s, l, k)
    /\ ~IsNarrowEnd(s, l, k)
    /\ ~IsMarkSpace(s, l, k)
    /\ ~IsCloseHash(s, l, k)
    /\ s.multi_words

DoStartHash(s, l, k) ==
    [s EXCEPT !.start = k + 1, !.in_hash = TRUE, !.end = k + 1, !.prev = Char(l, k)]

DoNarrowEnd(s, l, k) ==
    [s EXCEPT !.end = k, !.prev = Char(l, k)]

DoMarkSpace(s, l, k) ==
    [s EXCEPT !.end = k, !.multi_words = TRUE, !.prev = Char(l, k)]

DoCloseHashDropTag(s, l, k) ==
    [s EXCEPT !.in_hash = FALSE, !.multi_words = FALSE, !.prev = Char(l, k)]

DoCloseHash(s, l, k) ==
    [s EXCEPT !.in_hash = FALSE, !.multi_words = FALSE,
              !.tags = Append(s.tags, Slice(l, s.start, s.end)),
              !.prev = Char(l, k)]

DoAdvance(s, l, k) ==
    [s EXCEPT !.end = s.end + 1, !.prev = Char(l, k)]

DoNoBranch(s, l, k) ==
    [s EXCEPT !.prev = Char(l, k)]

\* the body of "for i, curr in enumerate(line)"
ScanStep(s, l, k) ==
    CASE IsStartHash(s, l, k) -> DoStartHash(s, l, k)
      [] IsNarrowEnd(s, l, k) -> DoNarrowEnd(s, l, k)
      [] IsMarkSpace(s, l, k) -> DoMarkSpace(s, l, k)
      [] IsCloseHash(s, l, k) -> DoCloseHash(s, l, k)
      [] IsAdvance(s, l, k)   -> DoAdvance(s, l, k)
      [] OTHER                -> DoNoBranch(s, l, k)

RECURSIVE ScanLoop(_, _, _)
ScanLoop(s, l, k) == IF k >= Len(l) THEN s ELSE ScanLoop(ScanStep(s, l, k), l, k + 1)

\* if not line or '#' not in line: return []
IsEarlyReturn(l) == l = NoneLine \/ l = <<>> \/ "#" \notin Range(l)

\* if in_hash: tags.append(line[start:end])
FinalTags(s, l) == IF s.in_hash THEN Append(s.tags, Slice(l, s.start, s.end)) ELSE s.tags

\* tags = list(filter(self.is_tag, tags))
FilterTags(ts) == SelectSeq(ts, is_tag)

extract_hashtags(l) ==
    IF IsEarlyReturn(l) THEN <<>> ELSE FilterTags(FinalTags(ScanLoop(ScanStart, l, 0), l))

-----------------------------------------------------------------------------
(* Lines given to the scanner *)

ScanAlphabet == {"#", " ", "a"}

GenericLines == UNION {[1..n -> ScanAlphabet] : n \in 0..MaxLineLen}

\* words around the colour pattern: five, six and seven hexadecimal digits, six
\* characters of which one is no hexadecimal digit, and a short word
ColourWords ==
    { <<"0", "A", "9", "f", "b">>,
      <<"0", "A", "9", "f", "b", "E">>,
      <<"0", "A", "9", "f", "b", "E", "a">>,
      <<"0", "A", "9", "f", "b", "z">>,
      <<"z">> }

RECURSIVE JoinTags(_)
\* "#w1 #w2 ... #wn"
JoinTags(ws) ==
    IF ws = <<>> THEN <<>>
    ELSE IF Len(ws) = 1 THEN <<"#">> \o ws[1]
    ELSE <<"#">> \o ws[1] \o <<" ">> \o JoinTags(Tail(ws))

ColourLines == {JoinTags(ws) : ws \in UNION {[1..n -> ColourWords] : n \in 1..MaxTags}}

ScanLines == GenericLines \cup ColourLines \cup {NoneLine}

-----------------------------------------------------------------------------
(* The scanner, one loop iteration per step *)

ScanIdle ==
    /\ line = NoneLine
    /\ i = 0
    /\ scan = ScanStart
    /\ spc = "idle"

ConvIdle ==
    /\ doc = <<>>
    /\ same_file = FALSE
    /\ platform = "Linux"
    /\ src_text = <<>>
    /\ li = 0
    /\ title = NoneLine
    /\ prev_line = NoneLine
    /\ front_matter = <<>>
    /\ out = <<>>
    /\ out_stat = "fresh"
    /\ cpc = "idle"

MainIdle ==
    /\ files = <<>>
    /\ overwrite = "yes"
    /\ reverse = FALSE
    /\ dst_is_file = FALSE
    /\ fidx = 0
    /\ outcome = <<>>
    /\ output = <<>>
    /\ mpc = "idle"

ScanInit ==
    /\ line \in ScanLines
    /\ i = 0
    /\ scan = ScanStart
    /\ spc = "idle"
    /\ ConvIdle
    /\ MainIdle

ScanEarlyReturn ==
    /\ spc = "idle"
    /\ IsEarlyReturn(line)
    /\ scan' = [scan EXCEPT !.tags = <<>>]
    /\ spc' = "done"
    /\ UNCHANGED <<line, i, convVars, mainVars>>

ScanEnter ==
    /\ spc = "idle"
    /\ ~IsEarlyReturn(line)
    /\ spc' = "loop"
    /\ UNCHANGED <<line, i, scan, convVars, mainVars>>

ScanStartHash ==
    /\ spc = "loop"
    /\ i < Len(line)
    /\ IsStartHash(scan, line, i)
    /\ scan' = DoStartHash(scan, line, i)
    /\ i' = i + 1
    /\ UNCHANGED <<line, spc, convVars, mainVars>>

ScanNarrowEnd ==
    /\ spc = "loop"
    /\ i < Len(line)
    /\ IsNarrowEnd(scan, line, i)
    /\ scan' = DoNarrowEnd(scan, line, i)
    /\ i' = i + 1
    /\ UNCHANGED <<line, spc, convVars, mainVars>>

ScanMarkSpace ==
    /\ spc = "loop"
    /\ i < Len(line)
    /\ IsMarkSpace(scan, line, i)
    /\ scan' = DoMarkSpace(scan, line, i)
    /\ i' = i + 1
    /\ UNCHANGED <<line, spc, convVars, mainVars>>

ScanCloseHash ==
    /\ spc = "loop"
    /\ i < Len(line)
    /\ IsCloseHash(scan, line, i)
    /\ scan' = DoCloseHash(scan, line, i)
    /\ i' = i + 1
    /\ UNCHANGED <<line, spc, convVars, mainVars>>

ScanAdvance ==
    /\ spc = "loop"
    /\ i < Len(line)
    /\ IsAdvance(scan, line, i)
    /\ scan' = DoAdvance(scan, line, i)
    /\ i' = i + 1
    /\ UNCHANGED <<line, spc, convVars, mainVars>>

ScanNoBranch ==
    /\ spc = "loop"
    /\ i < Len(line)
    /\ IsNoBranch(scan, line, i)
    /\ scan' = DoNoBranch(scan, line, i)
    /\ i' = i + 1
    /\ UNCHANGED <<line, spc, convVars, mainVars>>

ScanReturn ==
    /\ spc = "loop"
    /\ i >= Len(line)
    /\ scan' = [scan EXCEPT !.tags = FilterTags(FinalTags(scan, line))]
    /\ spc' = "done"
    /\ UNCHANGED <<line, i, convVars, mainVars>>

ScanNext ==
    \/ ScanEarlyReturn
    \/ ScanEnter
    \/ ScanStartHash
    \/ ScanNarrowEnd
    \/ ScanMarkSpace
    \/ ScanCloseHash
    \/ ScanAdvance
    \/ ScanNoBranch
    \/ ScanReturn

SpecScan == ScanInit /\ [][ScanNext]_vars

-----------------------------------------------------------------------------
(* str.rstrip, str.lstrip, str.strip *)

RECURSIVE rstrip(_, _)
\* l.rstrip(cs)
rstrip(l, cs) ==
    IF l # <<>> /\ l[Len(l)] \in cs THEN rstrip(SubSeq(l, 1, Len(l) - 1), cs) ELSE l

RECURSIVE lstrip(_, _)
\* l.lstrip(cs)
lstrip(l, cs) == IF l # <<>> /\ l[1] \in cs THEN lstrip(Tail(l), cs) ELSE l

\* the whitespace str.strip() removes, as far as the documents of the model hold it
Whitespace == {" ", "\t", "\n", "\r", "\f"}

\* l.strip()
strip(l) == lstrip(rstrip(l, Whitespace), Whitespace)

-----------------------------------------------------------------------------
(* get_creation_time and the timestamps of the record *)

Platforms == {"Windows", "Darwin", "Linux"}

\* the instant get_creation_time returns: os.path.getctime on Windows, st_birthtime
\* where os.stat has it, st_mtime elsewhere
get_creation_time(p) ==
    IF p = "Windows" THEN "getctime"
    ELSE IF p = "Darwin" THEN "st_birthtime"
    ELSE "st_mtime"

\* f'{t:%Y-%m-%d %H:%M:%SZ}' of datetime.fromtimestamp(t, timezone.utc)
FormatTime(t) == <<"utc:", t, "Z">>

-----------------------------------------------------------------------------
(* extract_front_matter_info *)

\* line = line.rstrip('\r\n')
StripEol(l) == rstrip(l, {"\r", "\n"})

NextTitleEveryLine(t, pl, l) == strip(lstrip(l, {"#"}))

\* if prev_line is None: title = line.lstrip('#').strip()
NextTitle(t, pl, l) == IF pl = NoneLine THEN strip(lstrip(l, {"#"})) ELSE t

NextPrevLineFirstOnly(pl, l) == IF pl = NoneLine THEN l ELSE pl

\* prev_line = line
NextPrevLine(pl, l) == l

MakeFrontMatterTagsAlways(t, p, tags) ==
    (IF t # NoneLine /\ t # <<>> THEN << <<"title", t>> >> ELSE <<>>)
    \o << <<"created", FormatTime(get_creation_time(p))>>,
          <<"updated", FormatTime("st_mtime")>> >>
    \o << <<"tags", tags>> >>

\* front_matter = {}; if title: ...; created, updated; if tags: ...
MakeFrontMatter(t, p, tags) ==
    (IF t # NoneLine /\ t # <<>> THEN << <<"title", t>> >> ELSE <<>>)
    \o << <<"created", FormatTime(get_creation_time(p))>>,
          <<"updated", FormatTime("st_mtime")>> >>
    \o (IF tags # <<>> THEN << <<"tags", tags>> >> ELSE <<>>)

RECURSIVE ReadLoop(_, _, _)
\* the loop over the lines of f, from the pair (title, prev_line)
ReadLoop(tp, d, k) ==
    IF k > Len(d) THEN tp
    ELSE IF StripEol(d[k]) = <<>> THEN ReadLoop(tp, d, k + 1)
    ELSE ReadLoop(<<NextTitle(tp[1], tp[2], StripEol(d[k])),
                    NextPrevLine(tp[2], StripEol(d[k]))>>, d, k + 1)

extract_front_matter_info(d, p) ==
    LET tp == ReadLoop(<<NoneLine, NoneLine>>, d, 1)
    IN  MakeFrontMatter(tp[1], p, extract_hashtags(tp[2]))

-----------------------------------------------------------------------------
(* The lines of the output file *)

\* a line written as text
TextLine(l) == [kind |-> "text", key |-> "", text |-> l]

\* yaml.dump(front_matter, sort_keys=False, explicit_start=True): the document
\* start, then the entries in the order of the dict, a scalar on its line, a list
\* as its key and one line for each item
YamlEntry(kv) ==
    IF kv[1] = "tags"
    THEN << [kind |-> "yaml-key", key |-> kv[1], text |-> <<>>] >>
         \o [k \in 1..Len(kv[2]) |-> [kind |-> "yaml-item", key |-> kv[1], text |-> kv[2][k]]]
    ELSE << [kind |-> "yaml-scalar", key |-> kv[1], text |-> kv[2]] >>

RECURSIVE YamlEntries(_)
YamlEntries(fm) == IF fm = <<>> THEN <<>> ELSE YamlEntry(fm[1]) \o YamlEntries(Tail(fm))

yaml_dump(fm) == << [kind |-> "yaml-start", key |-> "", text |-> <<>>] >> \o YamlEntries(fm)

\* out_file.write('---\n\n'): the line '---' and an empty line
Separator == << TextLine(<<"-", "-", "-", "\n">>), TextLine(<<"\n">>) >>

write_line_stripped(o, l) == Append(o, TextLine(StripEol(l)))

\* out_file.write(line)
write_line(o, l) == Append(o, TextLine(l))

-----------------------------------------------------------------------------
(* Documents *)

\* the text of a line, without its line ending
DocLineTexts ==
    { <<>>,
      <<" ">>,
      <<"#", " ", "a", " ">>,
      <<"#", "a", " ", "#", "z">>,
      <<"#", "0", "A", "9", "f", "b", "E">>,
      <<"#">> }

\* text-mode iteration yields every line with its '\n', the last one with or
\* without it
Docs ==
    UNION { { d \in [1..n -> {t \o e : t \in DocLineTexts, e \in {<<"\n">>, <<>>}}] :
                /\ \A k \in 1..n : d[k] # <<>>
                /\ \A k \in 1..(n - 1) : d[k][Len(d[k])] = "\n" }
            : n \in 0..MaxDocLines }

-----------------------------------------------------------------------------
(* convert, the branch of a markdown file without --reverse, step by step *)

ConvInit ==
    /\ ScanIdle
    /\ MainIdle
    /\ doc \in Docs
    /\ same_file \in BOOLEAN
    /\ platform \in Platforms
    /\ src_text = doc
    /\ li = 0
    /\ title = NoneLine
    /\ prev_line = NoneLine
    /\ front_matter = <<>>
    /\ out = <<>>
    /\ out_stat = "fresh"
    /\ cpc = "read"

\* for line in f: ... if not line: continue
BuildSkipBlank ==
    /\ cpc = "read"
    /\ li < Len(src_text)
    /\ StripEol(src_text[li + 1]) = <<>>
    /\ li' = li + 1
    /\ UNCHANGED <<scanVars, mainVars, doc, same_file, platform, src_text, title, prev_line,
                   front_matter, out, out_stat, cpc>>

\* for line in f: ... title, prev_line
BuildTakeLine ==
    /\ cpc = "read"
    /\ li < Len(src_text)
    /\ StripEol(src_text[li + 1]) # <<>>
    /\ title' = NextTitle(title, prev_line, StripEol(src_text[li + 1]))
    /\ prev_line' = NextPrevLine(prev_line, StripEol(src_text[li + 1]))
    /\ li' = li + 1
    /\ UNCHANGED <<scanVars, mainVars, doc, same_file, platform, src_text, front_matter, out,
                   out_stat, cpc>>

\* the end of the file: the tags of prev_line and the record
BuildRecord ==
    /\ cpc = "read"
    /\ li >= Len(src_text)
    /\ front_matter' = MakeFrontMatter(title, platform, extract_hashtags(prev_line))
    /\ cpc' = "dump"
    /\ UNCHANGED <<scanVars, mainVars, doc, same_file, platform, src_text, li, title, prev_line,
                   out, out_stat>>

\* open(in_path); open(out_path, 'w'), which empties in_path when the two are one
\* file; yaml.dump(...); out_file.write('---\n\n')
WriteHeader ==
    /\ cpc = "dump"
    /\ src_text' = IF same_file THEN <<>> ELSE src_text
    /\ out' = yaml_dump(front_matter) \o Separator
    /\ li' = 0
    /\ cpc' = "copy"
    /\ UNCHANGED <<scanVars, mainVars, doc, same_file, platform, title, prev_line, front_matter,
                   out_stat>>

\* for line in in_file: out_file.write(line)
CopyLine ==
    /\ cpc = "copy"
    /\ li < Len(src_text)
    /\ out' = write_line(out, src_text[li + 1])
    /\ li' = li + 1
    /\ UNCHANGED <<scanVars, mainVars, doc, same_file, platform, src_text, title, prev_line,
                   front_matter, out_stat, cpc>>

\* shutil.copymode(in_path, out_path); shutil.copystat(in_path, out_path)
CopyStat ==
    /\ cpc = "copy"
    /\ li >= Len(src_text)
    /\ out_stat' = "of in_path"
    /\ cpc' = "done"
    /\ UNCHANGED <<scanVars, mainVars, doc, same_file, platform, src_text, li, title, prev_line,
                   front_matter, out>>

ConvNext ==
    \/ BuildSkipBlank
    \/ BuildTakeLine
    \/ BuildRecord
    \/ WriteHeader
    \/ CopyLine
    \/ CopyStat

SpecConvert == ConvInit /\ [][ConvNext]_vars

-----------------------------------------------------------------------------
(* main over a directory, one call of convert per step *)

\* a file of the tree: whether its name ends in .md, whether it can be read (it
\* exists, may be opened and decodes), whether its out_path exists already, and
\* whether its front matter holds 'created'
Files == [md : BOOLEAN, readable : BOOLEAN, out_exists : BOOLEAN, fm_created : BOOLEAN]

OverwriteChoices == {"yes", "no", "ask", "abort"}

\* if os.path.exists(out_path): ... raise click.Abort()
IsAbort(f) == f.out_exists /\ overwrite = "abort"

\* if not overwrite: return, with the answer click.confirm gives under 'ask'
IsSkip(f, answer) ==
    /\ f.out_exists
    /\ overwrite # "abort"
    /\ ~(IF overwrite = "ask" THEN answer ELSE overwrite = "yes")

\* the call goes on to copy or convert
IsWrite(f, answer) == ~IsAbort(f) /\ ~IsSkip(f, answer)

\* set_creation_time raises NotImplementedError off Windows and macOS
CannotSetCreationTime(f) == f.fm_created /\ platform \notin {"Windows", "Darwin"}

ConvertReturns(what, left) ==
    /\ outcome' = [outcome EXCEPT ![fidx + 1] = what]
    /\ output' = [output EXCEPT ![fidx + 1] = left]
    /\ fidx' = fidx + 1
    /\ UNCHANGED <<scanVars, convVars, files, overwrite, reverse, dst_is_file, mpc>>

ConvertRaises(how, left) ==
    /\ outcome' = [outcome EXCEPT ![fidx + 1] = "raised"]
    /\ output' = [output EXCEPT ![fidx + 1] = left]
    /\ mpc' = how
    /\ UNCHANGED <<scanVars, convVars, files, overwrite, reverse, dst_is_file, fidx>>

MainInit ==
    /\ ScanIdle
    /\ doc = <<>>
    /\ same_file = FALSE
    /\ platform \in Platforms
    /\ src_text = <<>>
    /\ li = 0
    /\ title = NoneLine
    /\ prev_line = NoneLine
    /\ front_matter = <<>>
    /\ out = <<>>
    /\ out_stat = "fresh"
    /\ cpc = "idle"
    /\ files \in UNION {[1..n -> Files] : n \in 0..MaxFiles}
    /\ overwrite \in OverwriteChoices
    /\ reverse \in BOOLEAN
    /\ dst_is_file \in BOOLEAN
    /\ fidx = 0
    /\ outcome = [k \in 1..Len(files) |-> "pending"]
    /\ output = [k \in 1..Len(files) |-> IF files[k].out_exists THEN "old" ELSE "absent"]
    /\ mpc = "start"

\* if os.path.isfile(dst): raise click.BadArgumentUsage
MainBadUsage ==
    /\ mpc = "start"
    /\ dst_is_file
    /\ mpc' = "BadArgumentUsage"
    /\ UNCHANGED <<scanVars, convVars, files, overwrite, reverse, dst_is_file, fidx,
                   outcome, output>>

\* for root, _, filenames in os.walk(src)
MainWalk ==
    /\ mpc = "start"
    /\ ~dst_is_file
    /\ mpc' = "walk"
    /\ UNCHANGED <<scanVars, convVars, files, overwrite, reverse, dst_is_file, fidx,
                   outcome, output>>

\* convert: the output exists and --overwrite abort
MainConvertAbort ==
    /\ mpc = "walk"
    /\ fidx < Len(files)
    /\ IsAbort(files[fidx + 1])
    /\ ConvertRaises("Abort", output[fidx + 1])

\* convert: the output exists and is kept
MainConvertSkip ==
    /\ mpc = "walk"
    /\ fidx < Len(files)
    /\ \E answer \in BOOLEAN : IsSkip(files[fidx + 1], answer)
    /\ ConvertReturns("skipped", output[fidx + 1])

\* convert: shutil.copyfile of a file that is no markdown file
MainConvertCopy ==
    /\ mpc = "walk"
    /\ fidx < Len(files)
    /\ \E answer \in BOOLEAN : IsWrite(files[fidx + 1], answer)
    /\ ~files[fidx + 1].md
    /\ files[fidx + 1].readable
    /\ ConvertReturns("copied", "copy")

\* convert with --reverse: copy, then the times of the front matter
MainConvertReverse ==
    /\ mpc = "walk"
    /\ fidx < Len(files)
    /\ \E answer \in BOOLEAN : IsWrite(files[fidx + 1], answer)
    /\ files[fidx + 1].md
    /\ reverse
    /\ files[fidx + 1].readable
    /\ ~CannotSetCreationTime(files[fidx + 1])
    /\ ConvertReturns("restamped", "copy")

\* convert with --reverse where the creation time cannot be set: the copy is made
\* and NotImplementedError leaves main
MainConvertReverseRaises ==
    /\ mpc = "walk"
    /\ fidx < Len(files)
    /\ \E answer \in BOOLEAN : IsWrite(files[fidx + 1], answer)
    /\ files[fidx + 1].md
    /\ reverse
    /\ files[fidx + 1].readable
    /\ CannotSetCreationTime(files[fidx + 1])
    /\ ConvertRaises("NotImplementedError", "copy")

\* convert of a markdown file: front matter, separator, body
MainConvertForward ==
    /\ mpc = "walk"
    /\ fidx < Len(files)
    /\ \E answer \in BOOLEAN : IsWrite(files[fidx + 1], answer)
    /\ files[fidx + 1].md
    /\ ~reverse
    /\ files[fidx + 1].readable
    /\ ConvertReturns("converted", "front matter and body")

\* convert of a file that cannot be read: shutil.copyfile or open raises before
\* out_path is opened, nothing in convert or main catches it
MainConvertReadFails ==
    /\ mpc = "walk"
    /\ fidx < Len(files)
    /\ \E answer \in BOOLEAN : IsWrite(files[fidx + 1], answer)
    /\ ~files[fidx + 1].readable
    /\ ConvertRaises("read error", output[fidx + 1])

\* the walk is over
MainReturn ==
    /\ mpc = "walk"
    /\ fidx >= Len(files)
    /\ mpc' = "done"
    /\ UNCHANGED <<scanVars, convVars, files, overwrite, reverse, dst_is_file, fidx,
                   outcome, output>>

MainNext ==
    \/ MainBadUsage
    \/ MainWalk
    \/ MainConvertAbort
    \/ MainConvertSkip
    \/ MainConvertCopy
    \/ MainConvertReverse
    \/ MainConvertReverseRaises
    \/ MainConvertForward
    \/ MainConvertReadFails
    \/ MainReturn

SpecMain == MainInit /\ [][MainNext]_vars

-----------------------------------------------------------------------------
(* Reading a line independently of the scanner *)

\* the position of the first c in l, 0 when there is none
FirstIndexOf(l, c) ==
    IF c \in Range(l) THEN CHOOSE k \in 1..Len(l) : l[k] = c /\ \A j \in 1..(k - 1) : l[j] # c
    ELSE 0

RECURSIVE SplitSpaces(_)
\* the pieces of l between single spaces
SplitSpaces(l) ==
    IF FirstIndexOf(l, " ") = 0 THEN <<l>>
    ELSE <<SubSeq(l, 1, FirstIndexOf(l, " ") - 1)>>
         \o SplitSpaces(SubSeq(l, FirstIndexOf(l, " ") + 1, Len(l)))

\* a non-empty word free of spaces and '#'
IsPlainWord(w) == w # <<>> /\ "#" \notin Range(w) /\ " " \notin Range(w)

\* '#' followed by a plain word
IsTagToken(t) == Len(t) >= 2 /\ t[1] = "#" /\ IsPlainWord(Tail(t))

\* exactly six characters, each a hexadecimal digit
IsSixHex(t) == Len(t) = 6 /\ Range(t) \subseteq HexDigits

\* `#w1 #w2 ... #wn`, n >= 1, no wi a colour code
IsSingleWordTagLine(l) ==
    /\ l # NoneLine
    /\ l # <<>>
    /\ \A k \in 1..Len(SplitSpaces(l)) :
          IsTagToken(SplitSpaces(l)[k]) /\ ~IsSixHex(Tail(SplitSpaces(l)[k]))

\* `#w1 w2 ... wk #t`, k >= 2, t no colour code
IsMultiWordThenTag(l) ==
    /\ l # NoneLine
    /\ LET ts == SplitSpaces(l)
           n  == Len(ts)
       IN  /\ n >= 3
           /\ IsTagToken(ts[1])
           /\ \A k \in 2..(n - 1) : IsPlainWord(ts[k])
           /\ IsTagToken(ts[n])
           /\ ~IsSixHex(Tail(ts[n]))

LastToken(l) == SplitSpaces(l)[Len(SplitSpaces(l))]

\* the position of the first '#' after the leading one, 0 when there is none
SecondHash(l) ==
    IF l = NoneLine \/ Len(l) < 3 \/ l[1] # "#" \/ "#" \notin Range(Tail(l)) THEN 0
    ELSE 1 + FirstIndexOf(Tail(l), "#")

\* the line opens a candidate and a later '#', the first one, follows a character
\* that is no space: that '#' is met inside the candidate
HasGluedHash(l) ==
    /\ SecondHash(l) >= 3
    /\ l[SecondHash(l) - 1] # " "
    /\ ~IsSixHex(SubSeq(l, 2, SecondHash(l) - 1))

-----------------------------------------------------------------------------
(* Claims about the scanner, checked under SpecScan *)

\* C1: for a line `#w1 w2 ... wk #t` (k >= 2) the scanner returns the multi-word
\* tag `w1 w2 ... wk` in full, followed by t.
C1_MultiWordTagInFull ==
    (spc = "done" /\ IsMultiWordThenTag(line)) =>
        scan.tags = << SubSeq(line, 2, Len(line) - Len(LastToken(line)) - 1),
                       Tail(LastToken(line)) >>

\* C2: every tag the scanner returns is non-empty and has no leading and no
\* trailing space.
C2_TagsNonEmptyTrimmed ==
    spc = "done" =>
        \A k \in 1..Len(scan.tags) :
            /\ scan.tags[k] # <<>>
            /\ scan.tags[k][1] # " "
            /\ scan.tags[k][Len(scan.tags[k])] # " "

\* C3: for a line of n >= 1 single-word tags `#w1 #w2 ... #wn` separated by one
\* space, no wi a colour code, the scanner returns exactly [w1, ..., wn], in the
\* order of the line, repeated tags retained.
C3_SingleWordTagsInOrder ==
    (spc = "done" /\ IsSingleWordTagLine(line)) =>
        scan.tags = [k \in 1..Len(SplitSpaces(line)) |-> Tail(SplitSpaces(line)[k])]

C3_Witness ==
    /\ spc = "done"
    /\ IsSingleWordTagLine(line)
    /\ Len(scan.tags) >= 3
    /\ scan.tags[1] = scan.tags[3]
    /\ scan.tags[1] # scan.tags[2]

\* C4: when the scanner returns, a candidate is dropped if and only if its text is
\* exactly six hexadecimal digits; the kept candidates keep their relative order.
C4_DropExactlySixHex ==
    [][(spc = "loop" /\ spc' = "done") =>
        LET raw  == FinalTags(scan, line)
            keep == {k \in 1..Len(raw) : ~IsSixHex(raw[k])}
        IN  /\ Len(scan'.tags) = Cardinality(keep)
            /\ \A k \in keep :
                  scan'.tags[Cardinality({j \in keep : j <= k})] = raw[k]]_vars

C4_Witness ==
    /\ spc = "done"
    /\ line = JoinTags(<< <<"0", "A", "9", "f", "b", "E", "a">>,
                          <<"0", "A", "9", "f", "b", "E">>,
                          <<"0", "A", "9", "f", "b", "z">> >>)
    /\ scan.tags = << <<"0", "A", "9", "f", "b", "E", "a">>,
                      <<"0", "A", "9", "f", "b", "z">> >>

\* C10: a '#' met inside a candidate and not preceded by a space starts no new
\* candidate and is no part of the emitted tag: the tag ends just before it.
C10_GluedHashEndsTag ==
    (spc = "done" /\ HasGluedHash(line)) =>
        /\ scan.tags # <<>>
        /\ scan.tags[1] = SubSeq(line, 2, SecondHash(line) - 1)

-----------------------------------------------------------------------------
(* Reading a document independently of the builder *)

\* the line holds a character that is no line ending
HasText(l) == \E k \in 1..Len(l) : l[k] \notin {"\r", "\n"}

\* the line without the '\n' that ends it
LineText(l) == IF l # <<>> /\ l[Len(l)] = "\n" THEN SubSeq(l, 1, Len(l) - 1) ELSE l

TextLines(d) == {k \in 1..Len(d) : HasText(d[k])}

FirstTextLine(d) == LineText(d[CHOOSE k \in TextLines(d) : \A j \in TextLines(d) : k <= j])

LastTextLine(d) == LineText(d[CHOOSE k \in TextLines(d) : \A j \in TextLines(d) : k >= j])

\* the first non-empty line without its leading '#' and surrounding whitespace
ExpectedTitle(d) ==
    IF TextLines(d) = {} THEN NoneLine ELSE strip(lstrip(FirstTextLine(d), {"#"}))

\* the filtered scan of the last non-empty line
ExpectedTags(d) ==
    IF TextLines(d) = {} THEN <<>> ELSE extract_hashtags(LastTextLine(d))

Keys(fm) == [k \in 1..Len(fm) |-> fm[k][1]]

HasKey(fm, key) == \E k \in 1..Len(fm) : fm[k][1] = key

Value(fm, key) == fm[CHOOSE k \in 1..Len(fm) : fm[k][1] = key][2]

RecordBuilt == cpc \in {"dump", "copy", "done"}

-----------------------------------------------------------------------------
(* Claims about the builder and the conversion, checked under SpecConvert *)

\* C6: the title comes from the first non-empty line only: it is that line with
\* leading '#' and surrounding whitespace stripped, no later line and no blank line
\* changes it, and the record has no title key when there is no non-empty line.
C6_TitleFromFirstLine ==
    /\ cpc = "read" => title = ExpectedTitle(SubSeq(doc, 1, li))
    /\ RecordBuilt =>
          /\ title = ExpectedTitle(doc)
          /\ HasKey(front_matter, "title") <=> ExpectedTitle(doc) \notin {NoneLine, <<>>}
          /\ HasKey(front_matter, "title") =>
                Value(front_matter, "title") = ExpectedTitle(doc)
          /\ TextLines(doc) = {} => ~HasKey(front_matter, "title")

C6_Witness ==
    /\ cpc = "done"
    /\ Len(doc) = 3
    /\ ~HasText(doc[1])
    /\ LineText(doc[2]) = <<"#", " ", "a", " ">>
    /\ LineText(doc[3]) = <<"#", "a", " ", "#", "z">>
    /\ Value(front_matter, "title") = <<"a">>

\* C7: the tags of the record are the filtered scan of the last non-empty line,
\* blank lines after it skipped, no other line contributing, and there are no tags
\* when the document has no non-empty line.
C7_TagsFromLastLine ==
    RecordBuilt =>
        /\ prev_line = (IF TextLines(doc) = {} THEN NoneLine ELSE LastTextLine(doc))
        /\ (IF HasKey(front_matter, "tags") THEN Value(front_matter, "tags") ELSE <<>>)
              = ExpectedTags(doc)

C7_Witness ==
    /\ cpc = "done"
    /\ Len(doc) = 3
    /\ LineText(doc[1]) = <<"#">>
    /\ LineText(doc[2]) = <<"#", "a", " ", "#", "z">>
    /\ ~HasText(doc[3])
    /\ Value(front_matter, "tags") = << <<"a">>, <<"z">> >>

\* C8: the keys of every record are in the order title, created, updated, tags;
\* created and updated are always there; title is absent when no non-empty title
\* was found and tags is absent when no tag is left after filtering.
C8_RecordKeys ==
    RecordBuilt =>
        /\ Keys(front_matter) =
              (IF ExpectedTitle(doc) \in {NoneLine, <<>>} THEN <<>> ELSE <<"title">>)
              \o <<"created", "updated">>
              \o (IF ExpectedTags(doc) = <<>> THEN <<>> ELSE <<"tags">>)
        /\ \A k \in 1..Len(front_matter) : front_matter[k][2] # <<>>
        /\ TextLines(doc) = {} => Keys(front_matter) = <<"created", "updated">>

C8_Witness ==
    /\ cpc = "done"
    /\ Len(doc) = 2
    /\ TextLines(doc) = {}
    /\ Keys(front_matter) = <<"created", "updated">>

\* the lines before the first line written as text
HeaderLen(o) == Cardinality({k \in 1..Len(o) : \A j \in 1..k : o[j].kind # "text"})

-----------------------------------------------------------------------------
(* Claim about the batch run, checked under SpecMain *)

\* C5: a read failure on one document is confined to it: the run goes on to the
\* other documents of the tree and leaves their outputs as they were written.
C5_ReadFailureConfined ==
    mpc = "read error" =>
        \A k \in 1..Len(files) :
            k # fidx + 1 => outcome[k] # "pending"

====
